---- MODULE Spec2Model ----
(***************************************************************************)
(* simple-test-app: the record store of main.py (Database, the UI handlers *)
(* of SimpleTestApp) and the self-update flow of update_utils.py           *)
(* (check_for_new_version, update_application, backup_user_data,           *)
(* restore_user_data), run by the worker thread that check_updates_thread  *)
(* starts.                                                                 *)
(*                                                                         *)
(* Strings whose characters matter (versions, tags) are sequences of       *)
(* one-character strings; asset names are sequences of name tokens.        *)
(* Files are records tagged by `kind`.  The storage medium of the record   *)
(* store is taken to be healthy (no sqlite3.Error other than the UNIQUE    *)
(* violation); the network, the archive, tar, the install script and the   *)
(* copies of the updater are environment choices.                          *)
(***************************************************************************)
EXTENDS Integers, Sequences, FiniteSets, TLC

VARIABLES
    fs,             \* the files and directories the program touches
    clock,          \* the wall clock in whole seconds (CURRENT_TIMESTAMP)
    listing,        \* rows shown in users_tree (last result of get_users)
    lastRegister,   \* result of the last Database.register_user call
    registered,     \* history: the registrations that returned success
    uiOps,          \* history: the UI operations done, with the calling thread
    process,        \* "running", or "exit0" once the process has exited
    pc,             \* position of the update worker thread
    lastCheck,      \* the metadata response seen by check_for_new_version
    latest_version, \* local of check_for_new_version / update_application
    release_data,   \* the assets of the release descriptor
    download_url,   \* local of update_application
    install_script, \* local of update_application
    answer,         \* the user's answer to the update prompt
    steps,          \* history: the steps of update_application, with outcome
    backupInfo,     \* history: what backup_user_data found when it ran
    restoreInfo,    \* history: what restore_user_data found when it ran
    escaped         \* the exception that left check_for_new_version, if any

vars == <<fs, clock, listing, lastRegister, registered, uiOps, process, pc,
          lastCheck, latest_version, release_data, download_url,
          install_script, answer, steps, backupInfo, restoreInfo,
          escaped>>

flowVars == <<lastCheck, latest_version, release_data, download_url,
              install_script, answer, steps, backupInfo, restoreInfo,
              escaped>>

(***************************************************************************)
(* Bounds of the model.                                                    *)
(***************************************************************************)
MaxClock == 1

(***************************************************************************)
(* Program constants.                                                      *)
(***************************************************************************)
APP_VERSION == <<"1", ".", "0", ".", "1">>
CURRENT_VERSION == <<"1", ".", "0", ".", "0">>
ARCHIVE_SUFFIX == <<".tar", ".gz">>
INSTALL_SCRIPT_NAME == "install.sh"

(***************************************************************************)
(* Inputs.                                                                 *)
(***************************************************************************)
\* What the user enters in the registration form (after strip(); the
\* handler turns an empty username or password away before the store).
Forms ==
    { [username |-> "alice", password |-> "pw1", email |-> ""],
      [username |-> "alice", password |-> "pw2", email |-> "a@x"],
      [username |-> "bob", password |-> "pw1", email |-> "a@x"],
      [username |-> "", password |-> "pw1", email |-> ""] }

TagNames ==
    { <<>>,
      <<"v">>,
      <<"1", ".", "0", ".", "0">>,
      <<"v", "1", ".", "0", ".", "0">>,
      <<"v", "v", "1", ".", "0", ".", "0">>,
      <<"v", "1", ".", "0", ".", "1">> }

ZipAsset == [name |-> <<"app", ".zip">>, browser_download_url |-> "url-zip"]
TgzAsset == [name |-> <<"app", ".tar", ".gz">>, browser_download_url |-> "url-app"]
SrcAsset == [name |-> <<"src", ".tar", ".gz">>, browser_download_url |-> "url-src"]

AssetLists == { <<ZipAsset>>, <<ZipAsset, TgzAsset, SrcAsset>> }

\* The file trees a release archive can hold: sets of paths below the root.
ArchiveTrees ==
    { { <<"app", "main.py">> },
      { <<"app", "main.py">>, <<"app", "install.sh">> } }

Absent == [kind |-> "absent"]
Partial == [kind |-> "partial"]
Archive(valid, files) == [kind |-> "archive", valid |-> valid, files |-> files]
Db(users, version) == [kind |-> "db", users |-> users, version |-> version]

Exists(f) == f.kind # "absent"

(***************************************************************************)
(* Pure helpers.                                                           *)
(***************************************************************************)
Max(S) == CHOOSE m \in S : \A x \in S : x <= m

\* str.lstrip(chars) for a one-character set: drops every leading c.
RECURSIVE lstrip(_, _)
lstrip(s, c) ==
    IF s # <<>> /\ Head(s) = c THEN lstrip(Tail(s), c) ELSE s

\* str.endswith(suffix)
endswith(s, suffix) ==
    /\ Len(s) >= Len(suffix)
    /\ SubSeq(s, Len(s) - Len(suffix) + 1, Len(s)) = suffix

\* hashlib.sha256(password.encode()).hexdigest(): a digest, not the password.
hash_password(password) == <<"sha256", password>>

(***************************************************************************)
(* Database (main.py).                                                     *)
(***************************************************************************)
\* Mutant: the username column without its UNIQUE constraint.
UsernameNeverTaken(db, username) == FALSE

\* The UNIQUE constraint on users.username.
UsernameTaken(db, username) ==
    \E i \in 1..Len(db.users) : db.users[i].username = username

\* INTEGER PRIMARY KEY AUTOINCREMENT: one more than the largest id.
NextId(db) ==
    IF db.users = <<>> THEN 1
    ELSE Max({ db.users[i].id : i \in 1..Len(db.users) }) + 1

\* INSERT INTO users (username, password_hash, email): id and created_at
\* are assigned by the store.
InsertUser(db, username, password_hash, email, now) ==
    [db EXCEPT !.users = Append(@,
        [id |-> NextId(db), username |-> username,
         password_hash |-> password_hash, email |-> email,
         created_at |-> now])]

\* init_database: CREATE TABLE IF NOT EXISTS keeps existing rows;
\* INSERT OR REPLACE sets app_version.
init_database(f) ==
    IF f.kind = "db" THEN [f EXCEPT !.version = APP_VERSION]
    ELSE Db(<<>>, APP_VERSION)

\* The sequences SELECT ... ORDER BY created_at DESC may return: every
\* arrangement of the rows that is non-increasing in created_at (the order
\* among equal keys is not defined by the query).
OrderedByCreatedAtDesc(rows) ==
    { p \in [1..Len(rows) -> 1..Len(rows)] :
        /\ \A i, j \in 1..Len(rows) : i # j => p[i] # p[j]
        /\ \A i, j \in 1..Len(rows) :
              i < j => rows[p[i]].created_at >= rows[p[j]].created_at }

\* get_users: (username, email or '', created_at) per row, in query order.
get_users(db) ==
    { [i \in 1..Len(db.users) |->
          <<db.users[p[i]].username, db.users[p[i]].email,
            db.users[p[i]].created_at>>] :
      p \in OrderedByCreatedAtDesc(db.users) }

(***************************************************************************)
(* Paths.                                                                  *)
(***************************************************************************)
\* Database.get_db_path (main.py): <home>/.simple-test-app/users.db
Database_get_db_path == "~/.simple-test-app/users.db"

\* Mutant: the updater resolving the record store's own file.
get_db_path_of_store == Database_get_db_path

\* get_db_path (update_utils.py): <app_dir>/data/users.db
get_db_path == "<app_dir>/data/users.db"

BACKUP_DIR == "~/.simple-test-app/backup"
DB_BACKUP_PATH == "~/.simple-test-app/backup/users.db"
EXTRACT_DIR == "/tmp/simple-test-app-update"
\* /tmp/simple-test-app-<latest_version>.tar.gz: one flow writes one such file
DOWNLOAD_PATH == "/tmp/simple-test-app-<latest_version>.tar.gz"

Paths == { Database_get_db_path, "~/.simple-test-app",
           "<app_dir>/data/users.db", "<app_dir>/data",
           BACKUP_DIR, DB_BACKUP_PATH, EXTRACT_DIR, DOWNLOAD_PATH }

\* os.path.dirname
dirname(path) ==
    CASE path = "~/.simple-test-app/users.db" -> "~/.simple-test-app"
      [] path = "<app_dir>/data/users.db" -> "<app_dir>/data"
      [] path = "~/.simple-test-app/backup/users.db" -> "~/.simple-test-app/backup"
      [] OTHER -> "/tmp"

Dir(files) == [kind |-> "dir", files |-> files]

\* The files the update flow is allowed to change, and the store's file.
UpdaterPaths == Paths \ { Database_get_db_path, "~/.simple-test-app" }

(***************************************************************************)
(* UI operations: every messagebox call is recorded with its caller.       *)
(***************************************************************************)
MainThread == "main"
WorkerThread == "worker"

messagebox(op, text, thread) == [op |-> op, text |-> text, thread |-> thread]

\* sys.exit(0) raises SystemExit in the calling thread: in the main thread
\* the interpreter exits with status 0; in any other thread only that
\* thread ends (threading discards SystemExit).
sys_exit(thread, proc) == IF thread = MainThread THEN "exit0" ELSE proc

(***************************************************************************)
(* The initial state: SimpleTestApp.__init__ has run Database() (the store *)
(* file exists with both tables and app_version set), create_widgets has   *)
(* called refresh_users, and the update timer is armed.  An older          *)
(* installation may have left a data file under <app_dir>/data and a       *)
(* backup from an earlier update.                                          *)
(***************************************************************************)
LegacyRow == [id |-> 1, username |-> "carol",
              password_hash |-> hash_password("pw0"), email |-> "",
              created_at |-> 0]
LegacyDb == Db(<<LegacyRow>>, CURRENT_VERSION)
OldBackup == Db(<<>>, CURRENT_VERSION)

Init ==
    /\ \E live \in {Absent, LegacyDb}, old \in {Absent, OldBackup} :
        fs = [p \in Paths |->
                CASE p = Database_get_db_path -> init_database(Absent)
                  [] p = "~/.simple-test-app" -> Dir({})
                  [] p = "<app_dir>/data/users.db" -> live
                  [] p = "<app_dir>/data" -> IF Exists(live) THEN Dir({}) ELSE Absent
                  [] p = DB_BACKUP_PATH -> old
                  [] p = BACKUP_DIR -> IF Exists(old) THEN Dir({}) ELSE Absent
                  [] OTHER -> Absent]
    /\ clock = 0
    /\ listing = <<>>
    /\ lastRegister = [success |-> TRUE, message |-> "none", username |-> ""]
    /\ registered = {}
    /\ uiOps = {}
    /\ process = "running"
    /\ pc = "waiting"
    /\ lastCheck = [kind |-> "none", tag_name |-> <<>>, offered |-> FALSE]
    /\ latest_version = <<>>
    /\ release_data = <<>>
    /\ download_url = "none"
    /\ install_script = <<>>
    /\ answer = "none"
    /\ steps = <<>>
    /\ backupInfo = [ran |-> FALSE, ok |-> FALSE, sawLive |-> FALSE,
                     hadBackup |-> FALSE, registered |-> {}]
    /\ restoreInfo = [ran |-> FALSE, copied |-> FALSE, registered |-> {}]
    /\ escaped = "none"

(***************************************************************************)
(* Foreground (UI thread) operations.                                      *)
(***************************************************************************)
\* Database.register_user: (success, message, new content of the file).
Database_register_user(f, username, password, email, now) ==
    IF f.kind # "db"
    THEN [success |-> FALSE, message |-> "Database error", file |-> f]
    ELSE IF UsernameTaken(f, username)
    THEN [success |-> FALSE, message |-> "Username already exists!", file |-> f]
    ELSE [success |-> TRUE, message |-> "User registered successfully!",
          file |-> InsertUser(f, username, hash_password(password), email, now)]

\* Database.get_users on a file: [] on sqlite3.Error.
Database_get_users(f) == IF f.kind = "db" THEN get_users(f) ELSE { <<>> }

\* SimpleTestApp.register_user: the Register button's handler.
register_user(username, password, email) ==
    /\ process = "running"
    /\ IF username = "" \/ password = ""
       THEN /\ uiOps' = uiOps \cup
                   {messagebox("showerror", "Username and password are required!",
                               MainThread)}
            /\ UNCHANGED <<fs, listing, lastRegister, registered>>
       ELSE LET r == Database_register_user(fs[Database_get_db_path],
                                            username, password, email, clock)
            IN /\ lastRegister' = [success |-> r.success, message |-> r.message,
                                   username |-> username]
               /\ fs' = [fs EXCEPT ![Database_get_db_path] = r.file]
               /\ IF r.success
                  THEN /\ uiOps' = uiOps \cup
                              {messagebox("showinfo", r.message, MainThread)}
                       /\ registered' = registered \cup
                              {[username |-> username,
                                password_hash |-> hash_password(password),
                                email |-> email]}
                       /\ listing' \in Database_get_users(r.file)
                  ELSE /\ uiOps' = uiOps \cup
                              {messagebox("showerror", r.message, MainThread)}
                       /\ UNCHANGED <<registered, listing>>
    /\ UNCHANGED <<clock, process, pc, flowVars>>

\* SimpleTestApp.refresh_users: the Refresh button's handler.
refresh_users ==
    /\ process = "running"
    /\ listing' \in Database_get_users(fs[Database_get_db_path])
    /\ UNCHANGED <<fs, clock, lastRegister, registered, uiOps, process, pc,
                   flowVars>>

\* The wall clock moves on by a second.
Tick ==
    /\ clock < MaxClock
    /\ clock' = clock + 1
    /\ UNCHANGED <<fs, listing, lastRegister, registered, uiOps, process, pc,
                   flowVars>>

(***************************************************************************)
(* The update worker (update_utils.py), one action per blocking call.      *)
(***************************************************************************)
workerFrame == <<clock, listing, lastRegister, registered>>

\* check_updates_thread: the 2 s timer fires and the daemon thread starts.
check_updates_thread ==
    /\ process = "running"
    /\ pc = "waiting"
    /\ pc' = "check"
    /\ UNCHANGED <<fs, uiOps, process, workerFrame, flowVars>>

\* Mutant: only one leading 'v' removed (removeprefix instead of lstrip).
LatestVersionOneV(tag_name) ==
    IF tag_name # <<>> /\ Head(tag_name) = "v" THEN Tail(tag_name) ELSE tag_name

\* latest_version = data.get("tag_name", "").lstrip('v')
LatestVersion(tag_name) == lstrip(tag_name, "v")

\* if latest_version and latest_version != CURRENT_VERSION
IsNewVersion(version) == version # <<>> /\ version # CURRENT_VERSION

\* check_for_new_version up to the prompt: the GET of the release metadata.
\* A network failure raises inside the try and is printed; a status other
\* than 200 is printed.
check_for_new_version ==
    /\ process = "running"
    /\ pc = "check"
    /\ \E kind \in {"neterr", "http404", "http200"},
          tag_name \in TagNames, assets \in AssetLists :
        /\ kind # "http200" => tag_name = <<>> /\ assets = <<ZipAsset>>
        /\ LET offer == kind = "http200" /\ IsNewVersion(LatestVersion(tag_name))
           IN /\ lastCheck' = [kind |-> kind, tag_name |-> tag_name,
                               offered |-> offer]
              /\ IF offer
                 THEN /\ latest_version' = LatestVersion(tag_name)
                      /\ release_data' = assets
                      /\ pc' = "prompt"
                 ELSE /\ UNCHANGED <<latest_version, release_data>>
                      /\ pc' = "done"
    /\ UNCHANGED <<fs, uiOps, process, workerFrame, download_url,
                   install_script, answer, steps, backupInfo,
                   restoreInfo, escaped>>

\* Mutant: the answer to the prompt is not looked at.
ProceedWhateverAnswer(yes) == TRUE

\* if messagebox.askyesno(...): update_application(latest_version, data)
ProceedWithUpdate(yes) == yes

\* The update prompt, shown by the thread that runs check_for_new_version.
AskUpdate ==
    /\ process = "running"
    /\ pc = "prompt"
    /\ \E yes \in BOOLEAN :
        /\ answer' = IF yes THEN "yes" ELSE "no"
        /\ pc' = IF ProceedWithUpdate(yes) THEN "backup" ELSE "done"
    /\ uiOps' = uiOps \cup
          {messagebox("askyesno", "Update Available", WorkerThread)}
    /\ UNCHANGED <<fs, process, workerFrame, lastCheck, latest_version,
                   release_data, download_url, install_script, steps,
                   backupInfo, restoreInfo, escaped>>

\* Mutant: backup_user_data never copies the data file.
BackupNeverCopies(live) == FALSE

\* Whether backup_user_data copies: if os.path.exists(db_path)
BackupCopies(live) == Exists(live)

\* backup_user_data: the files afterwards and the value returned.
\*   "ok"         makedirs and (if the data file exists) copy2 succeed
\*   "mkdir_fail" os.makedirs raises: nothing written, returns False
\*   "copy_fail"  shutil.copy2 raises after opening the target: a partial
\*                backup file is left, returns False
backup_user_data(files, outcome) ==
    LET live == files[get_db_path]
        made == [files EXCEPT ![BACKUP_DIR] = Dir({})]
    IN CASE outcome = "mkdir_fail" -> [files |-> files, result |-> FALSE]
         [] outcome = "copy_fail" ->
              [files |-> [made EXCEPT ![DB_BACKUP_PATH] = Partial],
               result |-> FALSE]
         [] OTHER ->
              IF BackupCopies(live)
              THEN [files |-> [made EXCEPT ![DB_BACKUP_PATH] = live],
                    result |-> TRUE]
              ELSE [files |-> made, result |-> TRUE]

\* restore_user_data: the files afterwards and the value returned.
restore_user_data(files, outcome) ==
    IF Exists(files[DB_BACKUP_PATH])
    THEN LET made == [files EXCEPT ![dirname(get_db_path)] = Dir({})]
         IN IF outcome = "copy_fail"
            THEN [files |-> [made EXCEPT ![get_db_path] = Partial],
                  result |-> FALSE]
            ELSE [files |-> [made EXCEPT ![get_db_path] = files[DB_BACKUP_PATH]],
                  result |-> TRUE]
    ELSE [files |-> files, result |-> TRUE]

\* Mutant: the error path goes on to restore_user_data (a finally clause).
AbortThenRestore(cause) ==
    /\ uiOps' = uiOps \cup
          {messagebox("showerror", cause, WorkerThread)}
    /\ pc' = "restore"

\* except Exception as e: messagebox.showerror("Update Error", ...); the
\* worker returns to check_updates and ends.
Abort(cause) ==
    /\ uiOps' = uiOps \cup
          {messagebox("showerror", cause, WorkerThread)}
    /\ pc' = "done"

\* Step 1: if not backup_user_data(): showerror; return
Backup ==
    /\ process = "running"
    /\ pc = "backup"
    /\ \E outcome \in {"ok", "mkdir_fail", "copy_fail"} :
        /\ outcome = "copy_fail" => Exists(fs[get_db_path])
        /\ LET r == backup_user_data(fs, outcome)
           IN /\ fs' = r.files
              /\ steps' = Append(steps, <<"backup", r.result>>)
              /\ backupInfo' = [ran |-> TRUE, ok |-> r.result,
                                sawLive |-> Exists(fs[get_db_path]),
                                hadBackup |-> Exists(fs[DB_BACKUP_PATH]),
                                registered |-> registered]
              /\ IF r.result
                 THEN pc' = "locate" /\ UNCHANGED uiOps
                 ELSE Abort("Failed to backup user data")
    /\ UNCHANGED <<process, workerFrame, lastCheck, latest_version,
                   release_data, download_url, install_script, answer,
                   restoreInfo, escaped>>

\* for asset in assets: if asset["name"].endswith(".tar.gz"): ...; break
RECURSIVE FindAsset(_)
FindAsset(assets) ==
    IF assets = <<>> THEN "none"
    ELSE IF endswith(Head(assets).name, ARCHIVE_SUFFIX)
         THEN Head(assets).browser_download_url
         ELSE FindAsset(Tail(assets))

\* Step 2: locate the asset; announce the download.
LocateAsset ==
    /\ process = "running"
    /\ pc = "locate"
    /\ LET url == FindAsset(release_data)
       IN /\ download_url' = url
          /\ steps' = Append(steps, <<"locate", url # "none">>)
          /\ IF url = "none"
             THEN Abort("No update package found")
             ELSE /\ uiOps' = uiOps \cup
                        {messagebox("showinfo", "Downloading update...",
                                    WorkerThread)}
                  /\ pc' = "download"
    /\ UNCHANGED <<fs, process, workerFrame, lastCheck, latest_version,
                   release_data, install_script, answer, backupInfo,
                   restoreInfo, escaped>>

\* What the download URL can serve: an archive tar can read, or one it cannot.
Archives == { Archive(TRUE, t) : t \in ArchiveTrees } \cup { Archive(FALSE, {}) }

\* Step 3: stream the asset to the download path.
\*   "ok"         the whole body is written
\*   "http_error" the request fails or raise_for_status raises: no write
\*   "io_error"   a write fails: the partly written file stays
Download ==
    /\ process = "running"
    /\ pc = "download"
    /\ \E outcome \in {"ok", "http_error", "io_error"}, body \in Archives :
        /\ outcome # "ok" => body = Archive(FALSE, {})
        /\ fs' = CASE outcome = "ok" -> [fs EXCEPT ![DOWNLOAD_PATH] = body]
                   [] outcome = "io_error" -> [fs EXCEPT ![DOWNLOAD_PATH] = Partial]
                   [] OTHER -> fs
        /\ steps' = Append(steps, <<"download", outcome = "ok">>)
        /\ IF outcome = "ok"
           THEN pc' = "extract" /\ UNCHANGED uiOps
           ELSE Abort("Update failed: download")
    /\ UNCHANGED <<process, workerFrame, lastCheck, latest_version,
                   release_data, download_url, install_script, answer,
                   backupInfo, restoreInfo, escaped>>

\* Step 4: rmtree the old extraction directory, makedirs, tar -xzf.
Extract ==
    /\ process = "running"
    /\ pc = "extract"
    /\ LET archive == fs[DOWNLOAD_PATH]
           readable == archive.kind = "archive" /\ archive.valid
       IN \E tarOk \in BOOLEAN :
            /\ tarOk => readable
            /\ fs' = [fs EXCEPT ![EXTRACT_DIR] =
                        IF tarOk THEN Dir(archive.files) ELSE Dir({})]
            /\ steps' = Append(steps, <<"extract", tarOk>>)
            /\ IF tarOk
               THEN pc' = "find" /\ UNCHANGED uiOps
               ELSE Abort("Update failed: extract")
    /\ UNCHANGED <<process, workerFrame, lastCheck, latest_version,
                   release_data, download_url, install_script, answer,
                   backupInfo, restoreInfo, escaped>>

\* for root, dirs, files in os.walk(extract_dir): if "install.sh" in files
FindInstallScript(tree) ==
    LET found == { f \in tree.files : f[Len(f)] = INSTALL_SCRIPT_NAME }
    IN IF found = {} THEN <<>> ELSE CHOOSE f \in found : TRUE

\* Step 5: locate the installer; announce the installation if there is one.
LocateInstaller ==
    /\ process = "running"
    /\ pc = "find"
    /\ LET script == FindInstallScript(fs[EXTRACT_DIR])
       IN /\ install_script' = script
          /\ steps' = Append(steps, <<"find", script # <<>>>>)
          /\ IF script # <<>>
             THEN /\ uiOps' = uiOps \cup
                        {messagebox("showinfo", "Installing update...",
                                    WorkerThread)}
                  /\ pc' = "install"
             ELSE /\ UNCHANGED uiOps
                  /\ pc' = "restore"
    /\ UNCHANGED <<fs, process, workerFrame, lastCheck, latest_version,
                   release_data, download_url, answer, backupInfo,
                   restoreInfo, escaped>>

\* Step 6: subprocess.run(["sudo", "bash", install_script], check=True).
\* The script replaces the installation; it may remove <app_dir>/data.
Install ==
    /\ process = "running"
    /\ pc = "install"
    /\ \E status \in {0, 1}, wipes \in BOOLEAN :
        /\ fs' = IF wipes
                 THEN [fs EXCEPT ![get_db_path] = Absent,
                                 ![dirname(get_db_path)] = Absent]
                 ELSE fs
        /\ steps' = Append(steps, <<"install", status = 0>>)
        /\ IF status = 0
           THEN pc' = "restore" /\ UNCHANGED uiOps
           ELSE Abort("Update failed: install")
    /\ UNCHANGED <<process, workerFrame, lastCheck, latest_version,
                   release_data, download_url, install_script, answer,
                   backupInfo, restoreInfo, escaped>>

\* Step 7: time.sleep(1); restore_user_data() (its result is not looked at).
Restore ==
    /\ process = "running"
    /\ pc = "restore"
    /\ \E outcome \in {"ok", "copy_fail"} :
        LET r == restore_user_data(fs, outcome)
        IN /\ outcome = "copy_fail" => Exists(fs[DB_BACKUP_PATH])
           /\ fs' = r.files
           /\ steps' = Append(steps, <<"restore", r.result>>)
           /\ restoreInfo' = [ran |-> TRUE,
                              copied |-> Exists(fs[DB_BACKUP_PATH]),
                              registered |-> registered]
    /\ pc' = "terminate"
    /\ UNCHANGED <<uiOps, process, workerFrame, lastCheck, latest_version,
                   release_data, download_url, install_script, answer,
                   backupInfo, escaped>>

\* Step 8: showinfo("Update Complete", ...); sys.exit(0).  SystemExit is not
\* an Exception: no handler of update_application, check_for_new_version or
\* check_updates catches it.
Terminate ==
    /\ process = "running"
    /\ pc = "terminate"
    /\ uiOps' = uiOps \cup
          {messagebox("showinfo", "Update Complete", WorkerThread)}
    /\ steps' = Append(steps, <<"terminate", TRUE>>)
    /\ process' = sys_exit(WorkerThread, process)
    /\ escaped' = "SystemExit"
    /\ pc' = "done"
    /\ UNCHANGED <<fs, workerFrame, lastCheck, latest_version, release_data,
                   download_url, install_script, answer, backupInfo,
                   restoreInfo>>

Next ==
    \/ \E f \in Forms : register_user(f.username, f.password, f.email)
    \/ refresh_users
    \/ Tick
    \/ check_updates_thread
    \/ check_for_new_version
    \/ AskUpdate
    \/ Backup
    \/ LocateAsset
    \/ Download
    \/ Extract
    \/ LocateInstaller
    \/ Install
    \/ Restore
    \/ Terminate

Spec == Init /\ [][Next]_vars

(***************************************************************************)
(* Vocabulary of the properties.                                           *)
(***************************************************************************)
store == fs[Database_get_db_path]
backupFile == fs[DB_BACKUP_PATH]

StepLogged(name, ok) == \E i \in 1..Len(steps) : steps[i] = <<name, ok>>
StepRan(name) == StepLogged(name, TRUE) \/ StepLogged(name, FALSE)

\* The flow reached Terminate: every step before it succeeded or was skipped.
UpdateCompleted == StepRan("terminate")

\* The flow stopped at a failed step after backup_user_data returned True.
AbortedAfterBackup ==
    /\ pc = "done"
    /\ backupInfo.ok
    /\ steps # <<>>
    /\ steps[Len(steps)][2] = FALSE

RowsOf(db, username) ==
    { i \in 1..Len(db.users) : db.users[i].username = username }

\* Index of username in a listing, 0 when it is not listed.
PositionIn(rowsShown, username) ==
    IF \E i \in 1..Len(rowsShown) : rowsShown[i][1] = username
    THEN CHOOSE i \in 1..Len(rowsShown) : rowsShown[i][1] = username
    ELSE 0

\* out is s without its leading run of c.
IsLeadingRunStripped(s, c, out) ==
    \E k \in 0..Len(s) :
        /\ \A i \in 1..k : s[i] = c
        /\ out = SubSeq(s, k + 1, Len(s))
        /\ (out = <<>> \/ out[1] # c)

\* s with one leading c removed, if it has one.
OneLeadingStripped(s, c) ==
    IF Len(s) > 0 /\ s[1] = c THEN SubSeq(s, 2, Len(s)) ELSE s

(***************************************************************************)
(* C1: when every step of the update flow succeeds the process exits with  *)
(* status 0, and in every other flow the process keeps running.            *)
(***************************************************************************)
C1_ExitAfterSuccessfulUpdate ==
    /\ (pc = "done" /\ UpdateCompleted) => process = "exit0"
    /\ ~UpdateCompleted => process = "running"

(***************************************************************************)
(* C2: when backup() returns success while the store holds at least one    *)
(* registered user, a backup file exists and its content is the content of *)
(* the record store's file.                                                *)
(***************************************************************************)
C2_BackupIsOfTheStore ==
    [][ (pc = "backup" /\ pc' = "locate" /\ Len(store.users) >= 1)
          => /\ Exists(backupFile')
             /\ backupFile' = store' ]_vars

(***************************************************************************)
(* C3: after the install script exits non-zero the backup file is present, *)
(* restore() has not been invoked, an install error has been shown to the  *)
(* user and the process has not exited.                                    *)
(***************************************************************************)
C3_InstallFailureKeepsBackup ==
    StepLogged("install", FALSE) =>
        /\ Exists(backupFile)
        /\ ~StepRan("restore")
        /\ \E o \in uiOps : o.op = "showerror" /\ o.text = "Update failed: install"
        /\ process = "running"

(***************************************************************************)
(* C4: as long as the user has not answered yes to the update prompt, no   *)
(* step changes a file or directory of the update flow or the process      *)
(* state, and no step of the worker changes any file at all; so after the  *)
(* answer no everything is as it was before the check.                     *)
(***************************************************************************)
C4_NoMutationBeforeYes ==
    [][ answer' # "yes"
          => /\ \A p \in UpdaterPaths : fs'[p] = fs[p]
             /\ process' = process
             /\ (pc' # pc => fs' = fs) ]_vars

C4_Witness == answer = "no" /\ pc = "done" /\ registered # {}

(***************************************************************************)
(* C5: a register with a username not yet in the store succeeds and adds   *)
(* exactly one row; a register with a username already in the store        *)
(* returns the duplicate-username error and leaves the store unchanged; so *)
(* the store never holds two rows with one username.                       *)
(***************************************************************************)
C5_RegisterUnique ==
    [][ LET u == lastRegister'.username
            n == Len(store.users)
        IN /\ \A w \in {f.username : f \in Forms} :
                  Cardinality(RowsOf(store', w)) <= 1
           /\ (lastRegister' # lastRegister \/ store' # store) =>
                IF RowsOf(store, u) # {}
                THEN /\ ~lastRegister'.success
                     /\ lastRegister'.message = "Username already exists!"
                     /\ store' = store
                ELSE /\ lastRegister'.success
                     /\ Len(store'.users) = n + 1
                     /\ SubSeq(store'.users, 1, n) = store.users
                     /\ store'.users[n + 1].username = u ]_vars

C5_Witness ==
    /\ ~lastRegister.success
    /\ lastRegister.message = "Username already exists!"
    /\ Cardinality(RowsOf(store, lastRegister.username)) = 1
    /\ Len(store.users) = 2

(***************************************************************************)
(* C6: list_users() of an empty store is empty, and a user registered      *)
(* after another one is listed before it, also when both were registered   *)
(* within one clock second.                                                *)
(***************************************************************************)
C6_NewestFirst ==
    /\ store.users = <<>> => listing = <<>>
    /\ \A i, j \in 1..Len(store.users) :
          i < j => /\ PositionIn(listing, store.users[j].username) > 0
                   /\ PositionIn(listing, store.users[j].username)
                        < PositionIn(listing, store.users[i].username)

(***************************************************************************)
(* C7 as stated: on a 200 response an update is offered exactly when the   *)
(* tag with a leading 'v' stripped differs from the current version, and   *)
(* the offered version is that stripped tag; otherwise nothing is offered  *)
(* and nothing is raised.                                                  *)
(***************************************************************************)
C7_OfferIffTagDiffers ==
    /\ lastCheck.kind = "http200" =>
          /\ lastCheck.offered
                <=> OneLeadingStripped(lastCheck.tag_name, "v") # CURRENT_VERSION
          /\ lastCheck.offered
                => latest_version = OneLeadingStripped(lastCheck.tag_name, "v")
    /\ lastCheck.kind \in {"neterr", "http404"} =>
          ~lastCheck.offered /\ escaped = "none"

(***************************************************************************)
(* C7 amended: on a 200 response an update is offered exactly when the tag *)
(* without its whole leading run of 'v' is non-empty and differs from the  *)
(* current version, and the offered version is that stripped tag; on a     *)
(* non-200 response or a network failure nothing is offered or raised.     *)
(***************************************************************************)
C7_OfferIffStrippedTagNonEmptyAndDiffers ==
    /\ lastCheck.kind = "http200" =>
          \A out \in {SubSeq(lastCheck.tag_name, k, Len(lastCheck.tag_name)) :
                        k \in 1..(Len(lastCheck.tag_name) + 1)} :
              IsLeadingRunStripped(lastCheck.tag_name, "v", out) =>
                  /\ lastCheck.offered <=> (out # <<>> /\ out # CURRENT_VERSION)
                  /\ lastCheck.offered => latest_version = out
    /\ lastCheck.kind \in {"neterr", "http404"} =>
          ~lastCheck.offered /\ escaped = "none"

C7_Witness ==
    /\ lastCheck.kind = "http200"
    /\ lastCheck.tag_name = <<"v", "1", ".", "0", ".", "1">>
    /\ lastCheck.offered
    /\ latest_version = <<"1", ".", "0", ".", "1">>

(***************************************************************************)
(* C8: every UI operation is executed by the foreground UI thread; the     *)
(* worker performs none itself.                                            *)
(***************************************************************************)
C8_UiOnlyOnMainThread == \A o \in uiOps : o.thread = MainThread

C10_RegisteredUsersStay ==
    \A r \in registered :
        /\ store.kind = "db"
        /\ \E i \in 1..Len(store.users) :
              /\ store.users[i].username = r.username
              /\ store.users[i].password_hash = r.password_hash
              /\ store.users[i].email = r.email

C10_Witness ==
    /\ restoreInfo.ran
    /\ restoreInfo.copied
    /\ StepLogged("restore", TRUE)
    /\ backupInfo.sawLive
    /\ restoreInfo.registered \ backupInfo.registered # {}

(***************************************************************************)
(* C11: the steps of update_application occur in the order Backup, Locate  *)
(* Asset, Download, Extract, Locate Installer, Install, Restore,           *)
(* Terminate, each at most once and none left out, except that Install is  *)
(* skipped without error when no install.sh is found; a step runs only if  *)
(* every step run before it succeeded, where finding no installer and a    *)
(* failed restore() are not failures: after a failed backup() nothing      *)
(* else runs, and Terminate follows Restore whatever restore() returned.   *)
(***************************************************************************)
StepOrder ==
    <<"backup", "locate", "download", "extract", "find", "install",
      "restore", "terminate">>

StepRank(name) == CHOOSE k \in 1..Len(StepOrder) : StepOrder[k] = name

C11_StepsInOrder ==
    /\ steps # <<>> => steps[1][1] = "backup"
    /\ \A i, j \in 1..Len(steps) :
          i < j => StepRank(steps[i][1]) < StepRank(steps[j][1])
    /\ \A i \in 1..(Len(steps) - 1) :
          /\ steps[i][2] \/ steps[i][1] \in {"find", "restore"}
          /\ StepRank(steps[i + 1][1]) =
                IF steps[i] = <<"find", FALSE>>
                THEN StepRank("restore")
                ELSE StepRank(steps[i][1]) + 1
    /\ StepLogged("backup", FALSE) => Len(steps) = 1
    /\ StepLogged("find", FALSE) =>
          /\ ~StepRan("install")
          /\ ~\E o \in uiOps : o.op = "showerror" /\ o.thread = WorkerThread
    /\ pc = "done" /\ (StepLogged("find", FALSE) \/ StepRan("restore")) =>
          StepRan("restore") /\ StepRan("terminate")
    /\ pc = "done" /\ steps # <<>> /\ ~StepRan("terminate") =>
          steps[Len(steps)][2] = FALSE

C11_Witness ==
    /\ pc = "done"
    /\ steps = << <<"backup", TRUE>>, <<"locate", TRUE>>, <<"download", TRUE>>,
                  <<"extract", TRUE>>, <<"find", FALSE>>, <<"restore", FALSE>>,
                  <<"terminate", TRUE>> >>

(***************************************************************************)
(* C12: the version the Update Checker compares against is the running     *)
(* application's own version: whenever the release tag without its leading *)
(* 'v' equals the version the application displays and persists as         *)
(* app_version, the checker shows no update prompt.                        *)
(***************************************************************************)
C12_NoPromptForOwnVersion ==
    (/\ lastCheck.kind = "http200"
     /\ OneLeadingStripped(lastCheck.tag_name, "v") = APP_VERSION
     /\ store.version = APP_VERSION)
        => /\ ~lastCheck.offered
           /\ ~\E o \in uiOps : o.op = "askyesno"

====
